---- MODULE Spec2Model ----
(***************************************************************************)
(* Model of monitor_news.py (Pitztal Ice News Monitor): change detection   *)
(* against the persisted last-seen record, chunked translation, message    *)
(* formatting, chunked Telegram delivery, and the main() orchestration.    *)
(*                                                                         *)
(* Text is a sequence of one-character strings, so len(), split(), join(), *)
(* strip() and html.escape() are computed character by character.          *)
(* A Python dict with the keys title/snippet/link is a record whose fields *)
(* are options: {} for an absent key, {v} for a key holding v.             *)
(***************************************************************************)
EXTENDS Integers, Sequences, FiniteSets, TLC

VARIABLES
    file,        \* content of LAST_SEEN_FILE on disk
    pc,          \* position of main() in the current run
    env,         \* TELEGRAM_BOT_TOKEN / TELEGRAM_CHAT_ID presence
    telegram,    \* main()'s telegram argument (preview only prints to stdout)
    items,       \* what fetch_news() returned in this run
    latest,      \* items[0]
    last_seen,   \* what load_last_seen() returned
    message,     \* what build_message() returned
    chunks,      \* what _split_message_into_chunks() returned
    sendIdx,     \* loop index of send_telegram_messages (1-based)
    requests,    \* texts posted to the Telegram API in this run, in order
    startFile,   \* history: file content when the run started
    writes,      \* history: writes to the state file in this run
    prev,        \* history: the previous run (page, how it ended)
    persisted,   \* history: an entry that an earlier run wrote to the state file
    args,        \* inputs of the pure function under check
    result       \* its result

vars == <<file, pc, env, telegram, items, latest, last_seen, message, chunks,
          sendIdx, requests, startFile, writes, prev, persisted, args, result>>

runVars == <<file, pc, env, telegram, items, latest, last_seen, message, chunks,
             sendIdx, requests, startFile, writes, prev, persisted>>

-----------------------------------------------------------------------------
(* Bounds of the model *)

\* longest text given to translate_long_text in SpecTranslate
MaxTextLen == 7

\* largest max_chunk_size given to translate_long_text in SpecTranslate
MaxChunkLimit == 4

\* longest message given to _split_message_into_chunks in SpecSplit
MaxMsgLen == 7

\* largest max_length given to _split_message_into_chunks in SpecSplit
MaxSplitLimit == 4

\* stand-in for the default max_chunk_size=4500 of translate_long_text,
\* scaled down so build_message reaches the chunked path
TranslateChunkSize == 4

\* stand-in for the default max_length=4000 of _split_message_into_chunks,
\* scaled down so main() sends multi-part messages
TelegramMaxLength == 48

-----------------------------------------------------------------------------
(* Text primitives *)

Min(S) == CHOOSE m \in S : \A n \in S : m <= n

NL == <<"\n">>

NLNL == <<"\n", "\n">>

\* str.join
RECURSIVE Join(_, _)
Join(parts, sep) ==
    IF parts = <<>> THEN <<>>
    ELSE IF Len(parts) = 1 THEN parts[1]
    ELSE parts[1] \o sep \o Join(Tail(parts), sep)

\* str.split(sep): leftmost, non-overlapping occurrences of a non-empty sep
RECURSIVE Split(_, _)
Split(s, sep) ==
    LET hits == {i \in 1..(Len(s) - Len(sep) + 1) : SubSeq(s, i, i + Len(sep) - 1) = sep}
    IN  IF hits = {} THEN <<s>>
        ELSE LET i == Min(hits)
             IN  <<SubSeq(s, 1, i - 1)>> \o Split(SubSeq(s, i + Len(sep), Len(s)), sep)

IsSpace(c) == c \in {" ", "\n"}

\* str.strip()
RECURSIVE LStrip(_)
LStrip(s) == IF s # <<>> /\ IsSpace(Head(s)) THEN LStrip(Tail(s)) ELSE s

RECURSIVE RStrip(_)
RStrip(s) == IF s # <<>> /\ IsSpace(s[Len(s)]) THEN RStrip(SubSeq(s, 1, Len(s) - 1)) ELSE s

Strip(s) == RStrip(LStrip(s))

\* substring test: sub in s
Contains(s, sub) ==
    \E i \in 1..(Len(s) - Len(sub) + 1) : SubSeq(s, i, i + Len(sub) - 1) = sub

StartsWith(s, p) == Len(p) <= Len(s) /\ SubSeq(s, 1, Len(p)) = p

\* str(n) for n >= 0
Digit(d) == <<"0", "1", "2", "3", "4", "5", "6", "7", "8", "9">>[d + 1]

RECURSIVE IntToStr(_)
IntToStr(n) == IF n < 10 THEN <<Digit(n)>> ELSE IntToStr(n \div 10) \o <<Digit(n % 10)>>

\* html.escape(s), quote=True
EscapeChar(c) ==
    CASE c = "&"  -> <<"&", "a", "m", "p", ";">>
      [] c = "<"  -> <<"&", "l", "t", ";">>
      [] c = ">"  -> <<"&", "g", "t", ";">>
      [] c = "\"" -> <<"&", "q", "u", "o", "t", ";">>
      [] c = "'"  -> <<"&", "#", "x", "2", "7", ";">>
      [] OTHER    -> <<c>>

RECURSIVE html_escape(_)
html_escape(s) == IF s = <<>> THEN <<>> ELSE EscapeChar(Head(s)) \o html_escape(Tail(s))

-----------------------------------------------------------------------------
(* Python dicts with the keys title, snippet, link *)

Keys == {"title", "snippet", "link"}

None == {}

Some(v) == {v}

EmptyDict == [title |-> None, snippet |-> None, link |-> None]

\* dict.get(key): None when the key is absent
Get(d, k) == d[k]

\* dict.get(key, default)
GetOr(d, k, default) == IF d[k] = None THEN default ELSE CHOOSE v \in d[k] : TRUE

Entry(t, s, l) == [title |-> Some(t), snippet |-> Some(s), link |-> Some(l)]

-----------------------------------------------------------------------------
(* Change detection *)

is_new_AbsentAsEmpty(item, seen) ==
    \/ GetOr(item, "title", <<>>) # GetOr(seen, "title", <<>>)
    \/ GetOr(item, "snippet", <<>>) # GetOr(seen, "snippet", <<>>)

is_new_TitleOnly(item, seen) ==
    Get(item, "title") # Get(seen, "title")

is_new(item, seen) ==
    \/ Get(item, "title") # Get(seen, "title")
    \/ Get(item, "snippet") # Get(seen, "snippet")

-----------------------------------------------------------------------------
(* Translation *)

\* The translation backend is external: a call returns a translation,
\* returns nothing (None or ""), or raises.
Outcomes == {"ok", "empty", "raise"}

\* Stand-in for the text the backend returns for text (the tests use upper())
UpperChar(c) == CASE c = "a" -> "A" [] c = "b" -> "B" [] OTHER -> c

GoogleTranslate(text) == [i \in 1..Len(text) |-> UpperChar(text[i])]

translate_to_english_NoFallback(text, outcome) ==
    IF text = <<>> THEN text
    ELSE IF outcome = "ok" THEN GoogleTranslate(text) ELSE <<>>

\* outcome is what the backend does if it is called
translate_to_english(text, outcome) ==
    IF text = <<>> THEN text
    ELSE IF outcome = "raise" THEN text
    ELSE LET translated == IF outcome = "ok" THEN GoogleTranslate(text) ELSE <<>>
         IN  IF translated # <<>> THEN translated ELSE text

\* One call of translate_to_english from translate_long_text: the call is
\* recorded with its argument and with what the backend did.
TranslateCall(st, chunk_text, oracle) ==
    LET o == oracle[Len(st.calls) + 1]
    IN  [translated |-> Append(st.translated, translate_to_english(chunk_text, o)),
         calls      |-> Append(st.calls, [arg |-> chunk_text,
                                          backend |-> IF chunk_text = <<>> THEN "notcalled" ELSE o])]

\* the for loop of translate_long_text; st holds its local variables
RECURSIVE TranslateLoop(_, _, _, _)
TranslateLoop(paragraphs, max_chunk_size, oracle, st) ==
    IF paragraphs = <<>> THEN st
    ELSE LET para == Head(paragraphs)
             para_size == Len(para)
         IN  IF st.current_size + para_size > max_chunk_size /\ st.current_chunk # <<>>
             THEN LET c == TranslateCall(st, Join(st.current_chunk, NLNL), oracle)
                  IN  TranslateLoop(Tail(paragraphs), max_chunk_size, oracle,
                          [translated |-> c.translated, calls |-> c.calls,
                           current_chunk |-> <<para>>, current_size |-> para_size])
             ELSE TranslateLoop(Tail(paragraphs), max_chunk_size, oracle,
                          [translated |-> st.translated, calls |-> st.calls,
                           current_chunk |-> Append(st.current_chunk, para),
                           current_size |-> st.current_size + para_size + 2])

TranslateStart == [translated |-> <<>>, calls |-> <<>>, current_chunk |-> <<>>, current_size |-> 0]

translate_long_text_NoLastFlush(text, max_chunk_size, oracle) ==
    IF text = <<>> THEN [text |-> text, calls |-> <<>>]
    ELSE IF Len(text) <= max_chunk_size
    THEN LET c == TranslateCall(TranslateStart, text, oracle)
         IN  [text |-> c.translated[1], calls |-> c.calls]
    ELSE LET st == TranslateLoop(Split(text, NLNL), max_chunk_size, oracle, TranslateStart)
         IN  [text |-> Join(st.translated, NLNL), calls |-> st.calls]

\* returns the translated text and the calls of translate_to_english made
translate_long_text(text, max_chunk_size, oracle) ==
    IF text = <<>> THEN [text |-> text, calls |-> <<>>]
    ELSE IF Len(text) <= max_chunk_size
    THEN LET c == TranslateCall(TranslateStart, text, oracle)
         IN  [text |-> c.translated[1], calls |-> c.calls]
    ELSE LET st == TranslateLoop(Split(text, NLNL), max_chunk_size, oracle, TranslateStart)
             fin == IF st.current_chunk # <<>>
                    THEN TranslateCall(st, Join(st.current_chunk, NLNL), oracle)
                    ELSE [translated |-> st.translated, calls |-> st.calls]
         IN  [text |-> Join(fin.translated, NLNL), calls |-> fin.calls]

-----------------------------------------------------------------------------
(* Telegram msg chunks *)

\* the first for loop of _split_message_into_chunks; st holds its locals
RECURSIVE SplitLoop(_, _, _)
SplitLoop(lines, max_length, st) ==
    IF lines = <<>> THEN st
    ELSE LET line == Head(lines)
             line_length == Len(line) + 1
         IN  IF st.current_length + line_length > max_length /\ st.current_chunk # <<>>
             THEN SplitLoop(Tail(lines), max_length,
                      [chunks |-> Append(st.chunks, Join(st.current_chunk, NL)),
                       current_chunk |-> <<line>>, current_length |-> line_length])
             ELSE SplitLoop(Tail(lines), max_length,
                      [chunks |-> st.chunks,
                       current_chunk |-> Append(st.current_chunk, line),
                       current_length |-> st.current_length + line_length])

\* f"<b>{html.escape(title)} - part {i + 1}</b>\n\n" for the chunk at 1-based position n
PartHeader(title, n) ==
    <<"<", "b", ">">> \o html_escape(title)
        \o <<" ", "-", " ", "p", "a", "r", "t", " ">> \o IntToStr(n)
        \o <<"<", "/", "b", ">">> \o NLNL

split_message_DropsLine(msg, title, max_length) ==
    IF Len(msg) <= max_length THEN <<msg>>
    ELSE LET st == SplitLoop(Split(msg, NL), max_length,
                       [chunks |-> <<>>, current_chunk |-> <<>>, current_length |-> 0])
             packed == st.chunks
         IN  [i \in 1..Len(packed) |->
                 IF i = 1 THEN packed[i] ELSE PartHeader(title, i) \o packed[i]]

split_message_HeaderOffByOne(msg, title, max_length) ==
    IF Len(msg) <= max_length THEN <<msg>>
    ELSE LET st == SplitLoop(Split(msg, NL), max_length,
                       [chunks |-> <<>>, current_chunk |-> <<>>, current_length |-> 0])
             packed == IF st.current_chunk # <<>>
                       THEN Append(st.chunks, Join(st.current_chunk, NL))
                       ELSE st.chunks
         IN  [i \in 1..Len(packed) |->
                 IF i = 1 THEN packed[i] ELSE PartHeader(title, i - 1) \o packed[i]]

split_message_into_chunks(msg, title, max_length) ==
    IF Len(msg) <= max_length THEN <<msg>>
    ELSE LET st == SplitLoop(Split(msg, NL), max_length,
                       [chunks |-> <<>>, current_chunk |-> <<>>, current_length |-> 0])
             packed == IF st.current_chunk # <<>>
                       THEN Append(st.chunks, Join(st.current_chunk, NL))
                       ELSE st.chunks
         IN  [i \in 1..Len(packed) |->
                 IF i = 1 THEN packed[i] ELSE PartHeader(title, i) \o packed[i]]

-----------------------------------------------------------------------------
(* Message formatting *)

HeaderLine ==
    <<"#", " ", "<", "b", ">", "P", "i", "t", "z", "t", "a", "l", " ", "I", "c", "e",
      " ", "-", " ", "N", "e", "w", " ", "U", "p", "d", "a", "t", "e", "!", "<", "/", "b", ">">>

Bold(t) == <<"<", "b", ">">> \o t \o <<"<", "/", "b", ">">>

OriginalLine(t) ==
    <<"<", "i", ">", "(", "O", "r", "i", "g", "i", "n", "a", "l", ":", " ">> \o t
        \o <<")", "<", "/", "i", ">">>

ReadMore(link) ==
    <<"<", "a", " ", "h", "r", "e", "f", "=", "\"">> \o link
        \o <<"\"", ">", "R", "e", "a", "d", " ", "m", "o", "r", "e", "<", "/", "a", ">">>

\* oracle[1] is the backend's outcome for the title, oracle[2..] for the
\* snippet's chunks
build_message(item, oracle) ==
    LET title_de == GetOr(item, "title", <<>>)
        snippet_de == GetOr(item, "snippet", <<>>)
        link == GetOr(item, "link", <<>>)
        title_en == translate_to_english(title_de, oracle[1])
        snippet_en == translate_long_text(snippet_de, TranslateChunkSize,
                          [i \in 1..(Len(oracle) - 1) |-> oracle[i + 1]]).text
        title_de_safe == html_escape(title_de)
        title_en_safe == html_escape(title_en)
        snippet_en_safe == html_escape(snippet_en)
        lines == <<HeaderLine, <<>>>>
                 \o (IF title_en_safe # <<>>
                     THEN <<Bold(title_en_safe)>>
                          \o (IF title_de_safe # <<>> /\ title_de_safe # title_en_safe
                              THEN <<OriginalLine(title_de_safe)>> ELSE <<>>)
                          \o << <<>> >>
                     ELSE <<>>)
                 \o (IF snippet_en_safe # <<>> THEN <<snippet_en_safe, <<>>>> ELSE <<>>)
                 \o (IF link # <<>> THEN <<ReadMore(link)>> ELSE <<>>)
    IN  Strip(Join(lines, NL))

-----------------------------------------------------------------------------
(* The persisted state file *)

\* JSON text is a sequence of tokens
TokOpen == [t |-> "{"]

TokClose == [t |-> "}"]

TokPair(k, v) == [t |-> "pair", k |-> k, v |-> v]

TokListOpen == [t |-> "["]

TokListClose == [t |-> "]"]

TokGarbage == [t |-> "not json"]

KeyOrder == <<"title", "snippet", "link">>

json_dump_NoSnippet(d) ==
    LET Pairs(k) == IF d[k] = None THEN <<>> ELSE <<TokPair(k, GetOr(d, k, <<>>))>>
    IN  <<TokOpen>> \o Pairs(KeyOrder[1]) \o Pairs(KeyOrder[3]) \o <<TokClose>>

\* json.dump(item, fh): the keys present, in the dict's insertion order
json_dump(d) ==
    LET Pairs(k) == IF d[k] = None THEN <<>> ELSE <<TokPair(k, GetOr(d, k, <<>>))>>
    IN  <<TokOpen>> \o Pairs(KeyOrder[1]) \o Pairs(KeyOrder[2]) \o Pairs(KeyOrder[3]) \o <<TokClose>>

PyDict(d) == [type |-> "dict", d |-> d]

PyList == [type |-> "list", d |-> EmptyDict]

\* json.load(fh): ok = FALSE stands for JSONDecodeError
json_load(text) ==
    LET n == Len(text)
        inner == SubSeq(text, 2, n - 1)
        IsObject == /\ n >= 2 /\ text[1] = TokOpen /\ text[n] = TokClose
                    /\ \A i \in 1..Len(inner) : inner[i].t = "pair"
        Value(k) == LET at == {i \in 1..Len(inner) : inner[i].k = k}
                    IN  IF at = {} THEN None
                        ELSE Some(inner[CHOOSE i \in at : \A j \in at : j <= i].v)
    IN  IF IsObject
        THEN [ok |-> TRUE, val |-> PyDict([k \in Keys |-> Value(k)])]
        ELSE IF text = <<TokListOpen, TokListClose>>
        THEN [ok |-> TRUE, val |-> PyList]
        ELSE [ok |-> FALSE, val |-> PyDict(EmptyDict)]

MissingFile == [kind |-> "missing", text |-> <<>>]

UnreadableFile == [kind |-> "unreadable", text |-> <<>>]

BadUtf8File == [kind |-> "badutf8", text |-> <<>>]

TextFile(text) == [kind |-> "text", text |-> text]

\* exc names the exception that escapes load_last_seen, "none" if it returns
load_last_seen(f) ==
    IF f.kind = "missing" THEN [exc |-> "none", val |-> PyDict(EmptyDict)]
    ELSE IF f.kind = "unreadable" THEN [exc |-> "none", val |-> PyDict(EmptyDict)]
    ELSE IF f.kind = "badutf8" THEN [exc |-> "UnicodeDecodeError", val |-> PyDict(EmptyDict)]
    ELSE LET j == json_load(f.text)
         IN  IF j.ok THEN [exc |-> "none", val |-> j.val]
             ELSE [exc |-> "none", val |-> PyDict(EmptyDict)]

-----------------------------------------------------------------------------
(* Inputs of a run of main() *)

\* entries the extractor can return: title or snippet is non-empty
TitleOnlyEntry == Entry(<<"a">>, <<>>, <<>>)

SnippetOnlyEntry == Entry(<<>>, <<"b">>, <<"u">>)

OlderEntry == Entry(<<"a">>, <<"b">>, <<"u">>)

LongEntry == Entry(<<"a">>, <<"b", "b", "\n", "\n", "b">>, <<"u">>)

Entries == {TitleOnlyEntry, SnippetOnlyEntry, OlderEntry, LongEntry}

\* what fetch_news() can return: no entry, one entry, or two
Pages == {<<>>} \cup {<<e>> : e \in Entries} \cup {<<LongEntry, OlderEntry>>}

\* what the state file can hold when a run starts
StartFiles ==
    {MissingFile, UnreadableFile, BadUtf8File,
     TextFile(<<>>), TextFile(<<TokGarbage>>), TextFile(<<TokListOpen, TokListClose>>),
     TextFile(json_dump(EmptyDict)),
     TextFile(json_dump([title |-> None, snippet |-> Some(<<"b">>), link |-> None])),
     TextFile(json_dump(OlderEntry))}

Envs == [token : BOOLEAN, chat_id : BOOLEAN]

\* backend outcomes for the calls build_message makes: one for the title
\* and one for each chunk of the snippet
Oracles == [1..3 -> Outcomes]

NoPrev == [failed |-> FALSE, items |-> <<>>]

Terminal == {"done_noitems", "done_nochange", "done_saved",
             "failed_fetch", "failed_send", "crashed_load", "crashed_is_new"}

-----------------------------------------------------------------------------
(* main(), one action per step *)

PureIdle == args = [fn |-> "none"] /\ result = [done |-> FALSE]

RunLocalsReset ==
    /\ items = <<>>
    /\ latest = EmptyDict
    /\ last_seen = PyDict(EmptyDict)
    /\ message = <<>>
    /\ chunks = <<>>
    /\ sendIdx = 0
    /\ requests = <<>>
    /\ writes = 0

Init ==
    /\ file \in StartFiles
    /\ pc = "idle"
    /\ env = [token |-> TRUE, chat_id |-> TRUE]
    /\ telegram = TRUE
    /\ startFile = file
    /\ prev = NoPrev
    /\ persisted = None
    /\ RunLocalsReset
    /\ PureIdle

\* line 422, fetch_news() returns
Fetch ==
    /\ pc = "idle"
    /\ \E page \in Pages, e \in Envs, t \in BOOLEAN :
          /\ items' = page
          /\ env' = e
          /\ telegram' = t
    /\ pc' = "fetched"
    /\ UNCHANGED <<file, latest, last_seen, message, chunks, sendIdx, requests, startFile, writes, prev, args, result, persisted>>

\* line 422, fetch_news() raises (requests.get or raise_for_status)
FetchFails ==
    /\ pc = "idle"
    /\ \E e \in Envs, t \in BOOLEAN : env' = e /\ telegram' = t
    /\ pc' = "failed_fetch"
    /\ UNCHANGED <<file, items, latest, last_seen, message, chunks, sendIdx, requests, startFile, writes, prev, args, result, persisted>>

\* lines 423-427
CheckItems ==
    /\ pc = "fetched"
    /\ IF items = <<>>
       THEN pc' = "done_noitems" /\ latest' = latest
       ELSE pc' = "load" /\ latest' = items[1]
    /\ UNCHANGED <<file, env, telegram, items, last_seen, message, chunks, sendIdx,
                   requests, startFile, writes, prev, args, result, persisted>>

\* line 428
Load ==
    /\ pc = "load"
    /\ LET r == load_last_seen(file)
       IN  IF r.exc = "none"
           THEN pc' = "detect" /\ last_seen' = r.val
           ELSE pc' = "crashed_load" /\ last_seen' = last_seen
    /\ UNCHANGED <<file, env, telegram, items, latest, message, chunks, sendIdx,
                   requests, startFile, writes, prev, args, result, persisted>>

\* lines 430-434; last_seen.get raises AttributeError on a value that is no dict
Detect_Inverted ==
    /\ pc = "detect"
    /\ pc' = IF last_seen.type # "dict" THEN "crashed_is_new"
             ELSE IF is_new(latest, last_seen.d) THEN "done_nochange"
             ELSE "build"
    /\ UNCHANGED <<file, env, telegram, items, latest, last_seen, message, chunks, sendIdx,
                   requests, startFile, writes, prev, args, result, persisted>>

Detect ==
    /\ pc = "detect"
    /\ pc' = IF last_seen.type # "dict" THEN "crashed_is_new"
             ELSE IF ~is_new(latest, last_seen.d) THEN "done_nochange"
             ELSE "build"
    /\ UNCHANGED <<file, env, telegram, items, latest, last_seen, message, chunks, sendIdx,
                   requests, startFile, writes, prev, args, result, persisted>>

\* lines 435-439 and 344-345: build the message (the preview only prints it), split it
Build ==
    /\ pc = "build"
    /\ \E oracle \in Oracles : message' = build_message(latest, oracle)
    /\ IF telegram
       THEN /\ chunks' = split_message_into_chunks(message',
                             GetOr(latest, "title",
                                 <<"N", "e", "w", "s", " ", "U", "p", "d", "a", "t", "e">>),
                             TelegramMaxLength)
            /\ sendIdx' = 1
            /\ pc' = "send"
       ELSE /\ chunks' = chunks
            /\ sendIdx' = sendIdx
            /\ pc' = "save"
    /\ UNCHANGED <<file, env, telegram, items, latest, last_seen, requests,
                   startFile, writes, prev, args, result, persisted>>

HasCredentials == env.token /\ env.chat_id

\* the send loop moves to the next chunk, or ends (lines 347-357)
Advance ==
    /\ sendIdx' = sendIdx + 1
    /\ pc' = IF sendIdx = Len(chunks) THEN "save" ELSE "send"

\* lines 287-292: credentials missing, send_telegram_message just returns
SendSkip_PostsAnyway ==
    /\ pc = "send"
    /\ ~HasCredentials
    /\ requests' = Append(requests, [text |-> chunks[sendIdx], status |-> "ok"])
    /\ Advance
    /\ UNCHANGED <<file, env, telegram, items, latest, last_seen, message, chunks, startFile, writes, prev, args, result, persisted>>

SendSkip ==
    /\ pc = "send"
    /\ ~HasCredentials
    /\ Advance
    /\ UNCHANGED <<file, env, telegram, items, latest, last_seen, message, chunks,
                   requests, startFile, writes, prev, args, result, persisted>>

SendOk_OutOfOrder ==
    /\ pc = "send"
    /\ HasCredentials
    /\ requests' = Append(requests, [text |-> chunks[Len(chunks) + 1 - sendIdx], status |-> "ok"])
    /\ Advance
    /\ UNCHANGED <<file, env, telegram, items, latest, last_seen, message, chunks,
                   startFile, writes, prev, args, result, persisted>>

\* lines 294-303: the request is posted and the API answers 2xx
SendOk ==
    /\ pc = "send"
    /\ HasCredentials
    /\ requests' = Append(requests, [text |-> chunks[sendIdx], status |-> "ok"])
    /\ Advance
    /\ UNCHANGED <<file, env, telegram, items, latest, last_seen, message, chunks, startFile, writes, prev, args, result, persisted>>

SendFails_Swallowed ==
    /\ pc = "send"
    /\ HasCredentials
    /\ \E status \in {"http_error", "network_error"} :
          requests' = Append(requests, [text |-> chunks[sendIdx], status |-> status])
    /\ Advance
    /\ UNCHANGED <<file, env, telegram, items, latest, last_seen, message, chunks, startFile, writes, prev, args, result, persisted>>

\* lines 301-306: requests.post raises, or raise_for_status raises HTTPError;
\* the exception leaves send_telegram_messages and main
SendFails ==
    /\ pc = "send"
    /\ HasCredentials
    /\ \E status \in {"http_error", "network_error"} :
          requests' = Append(requests, [text |-> chunks[sendIdx], status |-> status])
    /\ pc' = "failed_send"
    /\ UNCHANGED <<file, env, telegram, items, latest, last_seen, message, chunks, sendIdx, startFile, writes, prev, args, result, persisted>>

\* lines 199-200: open(..., "w") truncates the file
SaveOpen ==
    /\ pc = "save"
    /\ file' = TextFile(<<>>)
    /\ pc' = "write"
    /\ UNCHANGED <<env, telegram, items, latest, last_seen, message, chunks, sendIdx,
                   requests, startFile, writes, prev, args, result, persisted>>

\* lines 200-202: json.dump and close
SaveWrite ==
    /\ pc = "write"
    /\ file' = TextFile(json_dump(latest))
    /\ writes' = writes + 1
    /\ pc' = "done_saved"
    /\ UNCHANGED <<env, telegram, items, latest, last_seen, message, chunks, sendIdx,
                   requests, startFile, prev, args, result, persisted>>

\* the process ends; the scheduler starts the next run later
EndRun ==
    /\ pc \in Terminal
    /\ pc' = "idle"
    /\ prev' = IF pc = "failed_send" THEN [failed |-> TRUE, items |-> items] ELSE NoPrev
    /\ startFile' = file
    /\ items' = <<>>
    /\ latest' = EmptyDict
    /\ last_seen' = PyDict(EmptyDict)
    /\ message' = <<>>
    /\ chunks' = <<>>
    /\ sendIdx' = 0
    /\ requests' = <<>>
    /\ writes' = 0
    /\ env' = [token |-> TRUE, chat_id |-> TRUE]
    /\ telegram' = TRUE
    /\ UNCHANGED <<file, args, result, persisted>>

Next ==
    \/ Fetch \/ FetchFails \/ CheckItems \/ Load \/ Detect \/ Build
    \/ SendSkip \/ SendOk \/ SendFails \/ SaveOpen \/ SaveWrite \/ EndRun

Spec == Init /\ [][Next]_vars

-----------------------------------------------------------------------------
(* The pure functions, applied to inputs drawn from bounded sets *)

\* main() is not running
RunIdle ==
    /\ file = MissingFile
    /\ pc = "idle"
    /\ env = [token |-> TRUE, chat_id |-> TRUE]
    /\ telegram = TRUE
    /\ startFile = MissingFile
    /\ prev = NoPrev
    /\ persisted = None
    /\ RunLocalsReset

Opt(S) == {None} \cup {Some(v) : v \in S}

\* dicts with any of the three keys absent, empty or set
Dicts == [title : Opt({<<>>, <<"a">>, <<"b">>}),
          snippet : Opt({<<>>, <<"a">>, <<"b">>}),
          link : Opt({<<"u">>})]

InitIsNew ==
    /\ RunIdle
    /\ args \in [fn : {"is_new"}, item : Dicts, seen : Dicts]
    /\ result = [done |-> FALSE]

IsNewCall ==
    /\ args.fn = "is_new"
    /\ ~result.done
    /\ result' = [done |-> TRUE, val |-> is_new(args.item, args.seen)]
    /\ UNCHANGED <<runVars, args>>

NextIsNew == IsNewCall

SpecIsNew == InitIsNew /\ [][NextIsNew]_vars

\* all texts over the alphabet, up to length n
RECURSIVE Texts(_, _)
Texts(alphabet, n) ==
    IF n = 0 THEN {<<>>}
    ELSE LET shorter == Texts(alphabet, n - 1)
         IN  shorter \cup {Append(t, c) : t \in {u \in shorter : Len(u) = n - 1}, c \in alphabet}

InitTranslate ==
    /\ RunIdle
    /\ args \in [fn : {"translate_to_english", "translate_long_text"},
                 text : Texts({"a", "\n"}, MaxTextLen),
                 max_chunk_size : 1..MaxChunkLimit]
    /\ result = [done |-> FALSE]

TranslateToEnglishCall ==
    /\ args.fn = "translate_to_english"
    /\ ~result.done
    /\ \E o \in Outcomes :
          result' = [done |-> TRUE,
                     text |-> translate_to_english(args.text, o),
                     calls |-> <<[arg |-> args.text,
                                  backend |-> IF args.text = <<>> THEN "notcalled" ELSE o]>>]
    /\ UNCHANGED <<runVars, args>>

TranslateLongTextCall ==
    /\ args.fn = "translate_long_text"
    /\ ~result.done
    /\ \E oracle \in [1..Len(Split(args.text, NLNL)) -> Outcomes] :
          LET r == translate_long_text(args.text, args.max_chunk_size, oracle)
          IN  result' = [done |-> TRUE, text |-> r.text, calls |-> r.calls]
    /\ UNCHANGED <<runVars, args>>

NextTranslate == TranslateToEnglishCall \/ TranslateLongTextCall

SpecTranslate == InitTranslate /\ [][NextTranslate]_vars

InitSplit ==
    /\ RunIdle
    /\ args \in [fn : {"_split_message_into_chunks"},
                 msg : Texts({"x", "\n"}, MaxMsgLen),
                 title : {<<>>, <<"T">>, <<"&">>},
                 max_length : 1..MaxSplitLimit]
    /\ result = [done |-> FALSE]

SplitCall ==
    /\ args.fn = "_split_message_into_chunks"
    /\ ~result.done
    /\ result' = [done |-> TRUE,
                  chunks |-> split_message_into_chunks(args.msg, args.title, args.max_length)]
    /\ UNCHANGED <<runVars, args>>

NextSplit == SplitCall

SpecSplit == InitSplit /\ [][NextSplit]_vars

-----------------------------------------------------------------------------
(* Claims about is_new, checked under SpecIsNew *)

Present(d, k) == d[k] # None

\* the value under key k, the empty string when the key is absent
TextOf(d, k) == IF Present(d, k) THEN CHOOSE v \in d[k] : TRUE ELSE <<>>

\* field k of the two dicts differs, an absent key being different from
\* every string, the empty string included, and equal only to an absent key
FieldDiffers(a, b, k) ==
    \/ Present(a, k) # Present(b, k)
    \/ Present(a, k) /\ Present(b, k) /\ TextOf(a, k) # TextOf(b, k)

\* C4 as stated: is_new is true exactly when title or snippet differ, a
\* field absent from either mapping comparing as the empty string.
C4_AbsentComparesAsEmpty ==
    result.done =>
        (result.val <=> (\/ TextOf(args.item, "title") # TextOf(args.seen, "title")
                         \/ TextOf(args.item, "snippet") # TextOf(args.seen, "snippet")))

\* C4 amended: is_new is true exactly when title or snippet differ, where
\* an absent field equals only another absent field (it differs from every
\* string, the empty string included).
C4_IsNewIffFieldDiffers ==
    result.done =>
        (result.val <=> (\/ FieldDiffers(args.item, args.seen, "title")
                         \/ FieldDiffers(args.item, args.seen, "snippet")))

\* C4 witness: a candidate with title "" against a record without a title
\* key and with an equal snippet is reported new.
C4_Witness ==
    /\ result.done
    /\ args.item.title = Some(<<>>)
    /\ args.seen.title = None
    /\ args.item.snippet = Some(<<"a">>)
    /\ args.seen.snippet = Some(<<"a">>)
    /\ result.val

\* C5 as stated: for every mapping e of title, snippet and link, each
\* possibly empty or absent, is_new(e, {}) is true.
C5_AnyMappingIsNew ==
    (result.done /\ args.seen = EmptyDict) => result.val

\* C5 amended: for every entry that has a title key or a snippet key
\* (whatever the value, the empty string included), is_new(e, {}) is true.
C5_EntryIsNewAgainstEmpty ==
    (/\ result.done
     /\ args.seen = EmptyDict
     /\ (Present(args.item, "title") \/ Present(args.item, "snippet")))
        => result.val

\* C5 witness: an entry with an empty title and no snippet key is new
\* against the empty record.
C5_Witness ==
    /\ result.done
    /\ args.seen = EmptyDict
    /\ args.item.title = Some(<<>>)
    /\ args.item.snippet = None
    /\ result.val

-----------------------------------------------------------------------------
(* Claims about translation, checked under SpecTranslate *)

\* the blank-line join of one piece per recorded call
JoinPieces(calls, Piece(_)) == Join([i \in 1..Len(calls) |-> Piece(calls[i])], NLNL)

\* what the claim expects of a call: the backend's return value when the
\* call returned (a translation, or nothing), the chunk itself when it raised
PieceAsStated(c) ==
    CASE c.backend = "ok"    -> GoogleTranslate(c.arg)
      [] c.backend = "empty" -> <<>>
      [] OTHER               -> c.arg

\* the translation when the backend returned a non-empty one, else the chunk
PieceAmended(c) == IF c.backend = "ok" THEN GoogleTranslate(c.arg) ELSE c.arg

\* the chunks handed to translate_to_english are the text, cut at blank lines
ChunksAreTheText ==
    args.text # <<>> => Join([i \in 1..Len(result.calls) |-> result.calls[i].arg], NLNL) = args.text

\* C7 as stated: the result is the blank-line join, in order, of
\* translate(ci) for every chunk whose call succeeded and of ci for every
\* chunk whose call failed.
C7_JoinOfBackendResults ==
    result.done =>
        /\ ChunksAreTheText
        /\ result.text = JoinPieces(result.calls, PieceAsStated)

\* C7 amended: a backend failure never prevents a result, and the result is
\* the blank-line join, in order, of translate(ci) for every chunk whose call
\* returned a non-empty translation and of ci itself for every chunk whose
\* call failed or returned nothing.
C7_FailuresIsolatedPerChunk ==
    result.done =>
        /\ ChunksAreTheText
        /\ result.text = JoinPieces(result.calls, PieceAmended)

\* C7 witness: a text translated in several calls of which one failed and
\* another succeeded.
C7_Witness ==
    /\ result.done
    /\ args.fn = "translate_long_text"
    /\ Len(result.calls) >= 2
    /\ \E i, j \in 1..Len(result.calls) :
          result.calls[i].backend = "raise" /\ result.calls[j].backend = "ok"

\* C8 as stated: exactly one translation call when the text length is at
\* most the limit, more than one when it exceeds the limit.
C8_OneCallIffWithinLimit ==
    (result.done /\ args.fn = "translate_long_text") =>
        /\ Len(args.text) <= args.max_chunk_size => Len(result.calls) = 1
        /\ Len(args.text) > args.max_chunk_size => Len(result.calls) > 1

\* C8 amended: no call of translate_to_english for the empty text, exactly
\* one for a non-empty text within the limit; for a text over the limit,
\* more than one exactly when the text holds a blank-line separator, and
\* exactly one otherwise.
C8_CallCount ==
    (result.done /\ args.fn = "translate_long_text") =>
        /\ args.text = <<>> => Len(result.calls) = 0
        /\ (args.text # <<>> /\ Len(args.text) <= args.max_chunk_size) => Len(result.calls) = 1
        /\ (Len(args.text) > args.max_chunk_size /\ Contains(args.text, NLNL))
               => Len(result.calls) > 1
        /\ (Len(args.text) > args.max_chunk_size /\ ~Contains(args.text, NLNL))
               => Len(result.calls) = 1

\* C8 witness: a text over the limit translated in more than one call.
C8_Witness ==
    /\ result.done
    /\ args.fn = "translate_long_text"
    /\ Len(args.text) > args.max_chunk_size
    /\ Len(result.calls) > 1

-----------------------------------------------------------------------------
(* Claims about _split_message_into_chunks, checked under SpecSplit *)

PartText(n) == <<" ", "-", " ", "p", "a", "r", "t", " ">> \o IntToStr(n)

\* chunk i without its continuation header
Body(i) ==
    IF i = 1 THEN result.chunks[1]
    ELSE SubSeq(result.chunks[i], Len(PartHeader(args.title, i)) + 1, Len(result.chunks[i]))

RECURSIVE Flatten(_)
Flatten(ss) == IF ss = <<>> THEN <<>> ELSE Head(ss) \o Flatten(Tail(ss))

\* C9 as stated: one chunk, the message, when the message fits the limit;
\* more than one chunk when it does not; the first chunk has no header, and
\* the chunk at position N >= 2 contains "<title> - part N".
C9_ChunksAndRawTitleHeaders ==
    result.done =>
        /\ Len(args.msg) <= args.max_length => result.chunks = <<args.msg>>
        /\ Len(args.msg) > args.max_length => Len(result.chunks) > 1
        /\ StartsWith(args.msg, result.chunks[1])
        /\ \A n \in 2..Len(result.chunks) :
              Contains(result.chunks[n], args.title \o PartText(n))

\* C9 amended: one chunk, the message, when the message fits the limit or
\* has no line break; more than one chunk when it exceeds the limit and has
\* a line break; the first chunk has no header, and the chunk at position
\* N >= 2 contains "<html-escaped title> - part N".
C9_ChunksAndEscapedTitleHeaders ==
    result.done =>
        /\ Len(args.msg) <= args.max_length => result.chunks = <<args.msg>>
        /\ (Len(args.msg) > args.max_length /\ Contains(args.msg, NL))
               => Len(result.chunks) > 1
        /\ (Len(args.msg) > args.max_length /\ ~Contains(args.msg, NL))
               => result.chunks = <<args.msg>>
        /\ StartsWith(args.msg, result.chunks[1])
        /\ \A n \in 2..Len(result.chunks) :
              Contains(result.chunks[n], html_escape(args.title) \o PartText(n))

\* C9 witness: a message split into three or more chunks under a title
\* that html.escape changes.
C9_Witness ==
    /\ result.done
    /\ Len(result.chunks) >= 3
    /\ args.title = <<"&">>

\* C10: no line is split or dropped: every chunk after the first starts
\* with its continuation header, the chunks without their headers joined
\* with a newline are the message, and their lines, chunk after chunk, are
\* the lines of the message in order.
C10_LinesPreserved ==
    result.done =>
        LET n == Len(result.chunks)
            bodies == [i \in 1..n |-> Body(i)]
        IN  /\ n >= 1
            /\ \A i \in 2..n : StartsWith(result.chunks[i], PartHeader(args.title, i))
            /\ Join(bodies, NL) = args.msg
            /\ Flatten([i \in 1..n |-> Split(bodies[i], NL)]) = Split(args.msg, NL)

\* C10 witness: a message split into several chunks, one of them holding
\* more than one non-empty line.
C10_Witness ==
    /\ result.done
    /\ Len(result.chunks) >= 2
    /\ \E i \in 1..Len(result.chunks) :
          LET lines == Split(Body(i), NL)
          IN  Len(lines) >= 2 /\ \A k \in 1..Len(lines) : lines[k] # <<>>

-----------------------------------------------------------------------------
(* Claims about main(), checked under Spec *)

AfterDetect == {"build", "send", "save", "write", "done_saved", "failed_send", "done_nochange"}

\* the top entry differs from the loaded record in title or snippet
TopEntryDiffers ==
    \/ FieldDiffers(latest, last_seen.d, "title")
    \/ FieldDiffers(latest, last_seen.d, "snippet")

AllSendsReturned ==
    /\ sendIdx = Len(chunks) + 1
    /\ HasCredentials =>
          /\ Len(requests) = Len(chunks)
          /\ \A i \in 1..Len(requests) :
                requests[i].status = "ok" /\ requests[i].text = chunks[i]

\* C1: with delivery enabled the state file is written only after every
\* send of the run has returned; a run in which a send raised ends with the
\* file as it was at the start of the run; and the next run on the same
\* page detects the entry as new again and sends again.
C1_PersistOnlyAfterDelivery ==
    /\ (telegram /\ (pc \in {"write", "done_saved"} \/ writes > 0 \/ file # startFile))
          => AllSendsReturned
    /\ pc = "failed_send" => (file = startFile /\ writes = 0)
    /\ (prev.failed /\ items = prev.items) =>
          /\ pc \notin {"done_noitems", "done_nochange", "crashed_load", "crashed_is_new"}
          /\ (pc \in {"save", "write", "done_saved", "failed_send"} /\ telegram /\ HasCredentials)
                => requests # <<>>

\* C1 witness: the run after a failed delivery meets the same page, sends
\* the first chunk again and fails on a later chunk.
C1_Witness ==
    /\ prev.failed
    /\ items = prev.items
    /\ pc = "failed_send"
    /\ sendIdx >= 2
    /\ file = startFile

\* C2: a request or a write happens only if an entry was extracted and it
\* differs from the last-seen record in title or snippet; a run without
\* entries, and a run whose top entry equals the record in title and
\* snippet, end without a send and with the state file untouched.
C2_NoEffectWithoutNewEntry ==
    /\ (requests # <<>> \/ writes > 0 \/ file # startFile) =>
          /\ items # <<>>
          /\ latest = items[1]
          /\ last_seen.type = "dict"
          /\ TopEntryDiffers
    /\ pc = "done_noitems" =>
          (items = <<>> /\ requests = <<>> /\ writes = 0 /\ file = startFile)
    /\ (pc \in AfterDetect /\ ~TopEntryDiffers) =>
          (pc = "done_nochange" /\ requests = <<>> /\ writes = 0 /\ file = startFile)

\* C2 witness: a run whose top entry equals the record stored in the state
\* file has ended.
C2_Witness ==
    /\ pc = "done_nochange"
    /\ startFile = TextFile(json_dump(latest))
    /\ telegram
    /\ HasCredentials

\* C3: with delivery enabled and the token or the chat id missing, no
\* request is made and no exception ends the run; the run saves the entry,
\* which the next run therefore reads back as not new.
C3_MissingCredentialsSkipDelivery ==
    (telegram /\ ~HasCredentials) =>
        /\ requests = <<>>
        /\ pc # "failed_send"
        /\ pc = "send" => ENABLED SendSkip
        /\ pc = "done_saved" =>
              /\ sendIdx = Len(chunks) + 1
              /\ LET r == load_last_seen(file)
                 IN  /\ r.exc = "none"
                     /\ r.val.type = "dict"
                     /\ ~FieldDiffers(latest, r.val.d, "title")
                     /\ ~FieldDiffers(latest, r.val.d, "snippet")

\* C3 witness: a run without a chat id has skipped the sends of a
\* multi-part message and saved the entry.
C3_Witness ==
    /\ pc = "done_saved"
    /\ telegram
    /\ env.token
    /\ ~env.chat_id
    /\ Len(chunks) >= 2
    /\ requests = <<>>

\* the state file held no JSON object when the run started
StartFileHoldsNoObject ==
    \/ startFile.kind # "text"
    \/ ~json_load(startFile.text).ok
    \/ json_load(startFile.text).val.type # "dict"

\* C6: whatever the state file holds that is no JSON object (missing,
\* unreadable, not JSON, JSON that is no object), the read gives the empty
\* record, the run goes on to the change detection and the top entry is new.
C6_BadStateFileReadsAsEmpty ==
    (StartFileHoldsNoObject /\ items # <<>>) =>
        /\ pc \notin {"crashed_load", "crashed_is_new", "done_nochange"}
        /\ pc \in ({"detect"} \cup AfterDetect) => last_seen = PyDict(EmptyDict)

-----------------------------------------------------------------------------
(* Claims about the send loop, checked under Spec *)

\* C11: the chunks are posted in sequence order, each at most once and each
\* exactly once when the loop has ended; chunk k+1 is posted only after the
\* post of chunk k has returned without error, and after a failed post no
\* further chunk is posted in the run.
C11_ChunksSentInOrder ==
    /\ Len(requests) <= Len(chunks)
    /\ \A i \in 1..Len(requests) : requests[i].text = chunks[i]
    /\ \A i \in 1..(Len(requests) - 1) : requests[i].status = "ok"
    /\ (requests # <<>> /\ requests[Len(requests)].status # "ok") => pc = "failed_send"
    /\ (pc = "send" /\ HasCredentials) => Len(requests) = sendIdx - 1
    /\ (pc \in {"save", "write", "done_saved"} /\ telegram /\ HasCredentials)
          => Len(requests) = Len(chunks)

\* C11 witness: a message of three or more chunks whose second post failed
\* after the first had succeeded.
C11_Witness ==
    /\ pc = "failed_send"
    /\ Len(chunks) >= 3
    /\ Len(requests) = 2
    /\ requests[1].status = "ok"

-----------------------------------------------------------------------------
(* Accordion extraction: header cleaning, date parsing, sorting *)

\* longest accordion list given to _extract_collapsible_items in SpecExtract
MaxItems == 3

DigitChars == {"0", "1", "2", "3", "4", "5", "6", "7", "8", "9"}

IsDigit(c) == c \in DigitChars

DigitVal(c) == CHOOSE d \in 0..9 : Digit(d) = c

\* int() of a run of digits
RECURSIVE ToInt(_)
ToInt(ds) == IF ds = <<>> THEN 0 ELSE 10 * ToInt(SubSeq(ds, 1, Len(ds) - 1)) + DigitVal(ds[Len(ds)])

\* \w of the regular expressions: letters, digits and the underscore
IsWordChar(c) == c \notin {" ", "\n", ".", "/", "-", ":", ",", "&", "<", ">"}

\* \b between positions i-1 and i of s
WordBoundary(s, i) ==
    LET before == i > 1 /\ IsWordChar(s[i - 1])
        after == i <= Len(s) /\ IsWordChar(s[i])
    IN  before # after

IconTokens == <<<<"k", "e", "y", "b", "o", "a", "r", "d", "_", "a", "r", "r", "o", "w", "_", "r", "i", "g", "h", "t">>, <<"t", "e", "r", "r", "a", "i", "n">>>>

\* the icon token matched by \b(keyboard_arrow_right|terrain)\b at position
\* i of s, <<>> when there is none
TokenAt(s, i) ==
    LET Hit(tok) == /\ i + Len(tok) - 1 <= Len(s)
                    /\ SubSeq(s, i, i + Len(tok) - 1) = tok
                    /\ WordBoundary(s, i)
                    /\ WordBoundary(s, i + Len(tok))
    IN  IF Hit(IconTokens[1]) THEN IconTokens[1]
        ELSE IF Hit(IconTokens[2]) THEN IconTokens[2]
        ELSE <<>>

\* re.sub(r"\b(keyboard_arrow_right|terrain)\b", "", s), scanning from i
RECURSIVE RemoveIconTokens(_, _)
RemoveIconTokens(s, i) ==
    IF i > Len(s) THEN <<>>
    ELSE LET tok == TokenAt(s, i)
         IN  IF tok # <<>> THEN RemoveIconTokens(s, i + Len(tok))
             ELSE <<s[i]>> \o RemoveIconTokens(s, i + 1)

\* re.sub(r"\s+", " ", s)
RECURSIVE CollapseSpaces(_)
CollapseSpaces(s) ==
    IF s = <<>> THEN <<>>
    ELSE IF IsSpace(Head(s))
    THEN <<" ">> \o CollapseSpaces(LStrip(s))
    ELSE <<Head(s)>> \o CollapseSpaces(Tail(s))

clean_header_text(text) ==
    IF text = <<>> THEN <<>>
    ELSE Strip(CollapseSpaces(RemoveIconTokens(text, 1)))

AllDigits(s, from, to) == \A k \in from..to : k <= Len(s) /\ IsDigit(s[k])

\* the match of (\d{1,2})\.(\d{1,2})\.(\d{2,4}) that starts at position i:
\* the greedy choice first, then the shorter day or month; <<>> when none
DateMatchAt(s, i) ==
    LET Fits(dl, ml) ==
            /\ AllDigits(s, i, i + dl - 1)
            /\ i + dl <= Len(s) /\ s[i + dl] = "."
            /\ AllDigits(s, i + dl + 1, i + dl + ml)
            /\ i + dl + ml + 1 <= Len(s) /\ s[i + dl + ml + 1] = "."
            /\ AllDigits(s, i + dl + ml + 2, i + dl + ml + 3)
        Groups(dl, ml) ==
            LET y0 == i + dl + ml + 2
                yl == CHOOSE n \in 2..4 :
                         /\ AllDigits(s, y0, y0 + n - 1)
                         /\ (n = 4 \/ ~AllDigits(s, y0, y0 + n))
            IN  <<ToInt(SubSeq(s, i, i + dl - 1)),
                  ToInt(SubSeq(s, i + dl + 1, i + dl + ml)),
                  ToInt(SubSeq(s, y0, y0 + yl - 1))>>
    IN  IF Fits(2, 2) THEN Groups(2, 2)
        ELSE IF Fits(2, 1) THEN Groups(2, 1)
        ELSE IF Fits(1, 2) THEN Groups(1, 2)
        ELSE IF Fits(1, 1) THEN Groups(1, 1)
        ELSE <<>>

IsLeap(y) == y % 4 = 0 /\ (y % 100 # 0 \/ y % 400 = 0)

DaysInMonth(y, m) ==
    IF m = 2 THEN (IF IsLeap(y) THEN 29 ELSE 28)
    ELSE IF m \in {4, 6, 9, 11} THEN 30 ELSE 31

\* a date as the number yyyymmdd, so that numbers order as dates do
DateNumber(y, m, d) == y * 10000 + m * 100 + d

\* date.min, 0001-01-01
DateMin == DateNumber(1, 1, 1)

\* _extract_date_from_title: None, or the date of the first match
extract_date_from_title(title) ==
    LET starts == {i \in 1..Len(title) : DateMatchAt(title, i) # <<>>}
    IN  IF title = <<>> \/ starts = {} THEN None
        ELSE LET g == DateMatchAt(title, Min(starts))
                 day == g[1]
                 month == g[2]
                 year == IF g[3] < 100 THEN g[3] + 2000 ELSE g[3]
             IN  IF /\ year >= 1 /\ year <= 9999
                    /\ month >= 1 /\ month <= 12
                    /\ day >= 1 /\ day <= DaysInMonth(year, month)
                 THEN Some(DateNumber(year, month, day))
                 ELSE None

\* the sort key of line 121: item.get("date") or date.min
SortKey(item) == IF item.date = None THEN DateMin ELSE CHOOSE d \in item.date : TRUE

\* list.sort(key=..., reverse=True): descending, equal keys keep their order
RECURSIVE SortDescStable(_, _)
SortDescStable(sorted, rest) ==
    IF rest = <<>> THEN sorted
    ELSE LET x == Head(rest)
             lower == {j \in 1..Len(sorted) : SortKey(sorted[j]) < SortKey(x)}
             at == IF lower = {} THEN Len(sorted) + 1 ELSE Min(lower)
         IN  SortDescStable(SubSeq(sorted, 1, at - 1) \o <<x>> \o SubSeq(sorted, at, Len(sorted)),
                            Tail(rest))

\* the for loop of lines 103-119 over the <li> elements: li.header is the
\* text of .collapsible-header (None without one), li.paragraphs the texts
\* of the <p> elements of .collapsible-body
RECURSIVE CollectItems(_, _)
CollectItems(lis, base_url) ==
    IF lis = <<>> THEN <<>>
    ELSE LET li == Head(lis)
             title == IF li.header = None THEN <<>>
                      ELSE clean_header_text(CHOOSE h \in li.header : TRUE)
             paragraphs == SelectSeq(li.paragraphs, LAMBDA p : p # <<>>)
             snippet == Strip(Join(paragraphs, NLNL))
             item == [title |-> title, snippet |-> snippet, link |-> base_url,
                      date |-> extract_date_from_title(title)]
         IN  (IF title # <<>> \/ snippet # <<>> THEN <<item>> ELSE <<>>)
                 \o CollectItems(Tail(lis), base_url)

extract_collapsible_items_Unsorted(lis, base_url) ==
    LET items0 == CollectItems(lis, base_url)
    IN  [i \in 1..Len(items0) |-> Entry(items0[i].title, items0[i].snippet, items0[i].link)]

\* _extract_collapsible_items on the <li> elements of the accordion
extract_collapsible_items(lis, base_url) ==
    LET sorted == SortDescStable(<<>>, CollectItems(lis, base_url))
    IN  [i \in 1..Len(sorted) |-> Entry(sorted[i].title, sorted[i].snippet, sorted[i].link)]

LI(header, paragraphs) == [header |-> header, paragraphs |-> paragraphs]

LI_Feb2026 == LI(Some(<<"t", "e", "r", "r", "a", "i", "n", " ", "I", "c", "e", " ", " ", "N", "e", "w", "s", " ", "2", "2", ".", "0", "2", ".", "2", "0", "2", "6">>), <<<<"b">>>>)

LI_Nov2025 == LI(Some(<<"I", "c", "e", " ", "N", "e", "w", "s", " ", "1", ".", "1", "1", ".", "2", "5">>), <<<<"b">>>>)

LI_Nov2025Long == LI(Some(<<"0", "1", ".", "1", "1", ".", "2", "0", "2", "5">>), <<>>)

LI_NoDate == LI(Some(<<"x">>), <<<<"b">>>>)

LI_Day32 == LI(Some(<<"3", "2", ".", "0", "1", ".", "2", "0", "2", "6">>), <<>>)

LI_Feb29 == LI(Some(<<"2", "9", ".", "0", "2", ".", "2", "0", "2", "5">>), <<<<"b">>>>)

LI_Jan2024 == LI(Some(<<"5", ".", "1", ".", "2", "4", " ", "k", "e", "y", "b", "o", "a", "r", "d", "_", "a", "r", "r", "o", "w", "_", "r", "i", "g", "h", "t">>), <<<<"b">>>>)

LI_NoHeader == LI(None, <<<<"b">>, <<>>, <<"b">>>>)

LI_Empty == LI(None, <<>>)

SampleLIs == {LI_Feb2026, LI_Jan2024, LI_Nov2025, LI_Nov2025Long, LI_NoDate, LI_Day32, LI_Feb29,
              LI_NoHeader, LI_Empty}

\* all sequences over S of length at most n
RECURSIVE SeqsUpTo(_, _)
SeqsUpTo(S, n) ==
    IF n = 0 THEN {<<>>}
    ELSE LET shorter == SeqsUpTo(S, n - 1)
         IN  shorter \cup {Append(q, x) : q \in {u \in shorter : Len(u) = n - 1}, x \in S}

BaseUrl == <<"u">>

InitExtract ==
    /\ RunIdle
    /\ args \in [fn : {"_extract_collapsible_items"}, lis : SeqsUpTo(SampleLIs, MaxItems)]
    /\ result = [done |-> FALSE]

ExtractCall ==
    /\ args.fn = "_extract_collapsible_items"
    /\ ~result.done
    /\ result' = [done |-> TRUE, items |-> extract_collapsible_items(args.lis, BaseUrl)]
    /\ UNCHANGED <<runVars, args>>

NextExtract == ExtractCall

SpecExtract == InitExtract /\ [][NextExtract]_vars

-----------------------------------------------------------------------------
(* Claims about the accordion extractor, checked under SpecExtract *)

\* the calendar date written in the header of each sample element, as
\* yyyymmdd; 0 where the header is absent or holds no valid date
DateWritten(li) ==
    IF li = LI_Feb2026 THEN 20260222
    ELSE IF li \in {LI_Nov2025, LI_Nov2025Long} THEN 20251101
    ELSE IF li = LI_Jan2024 THEN 20240105
    ELSE 0

Perms(n) == {p \in [1..n -> 1..n] : \A i, j \in 1..n : p[i] = p[j] => i = j}

Permuted(seq, p) == [i \in 1..Len(seq) |-> seq[p[i]]]

Range(seq) == {seq[i] : i \in 1..Len(seq)}

\* the entry made of one element on its own
EntryOfLI(li) == extract_collapsible_items(<<li>>, BaseUrl)[1]

DistinctDated(lis) ==
    /\ \A i \in 1..Len(lis) : DateWritten(lis[i]) # 0
    /\ \A i, j \in 1..Len(lis) : DateWritten(lis[i]) = DateWritten(lis[j]) => i = j

\* C12: the extractor returns the entries of the non-empty elements ordered
\* by descending header date, entries without a valid date after every dated
\* one, entries of equal date (and the undated ones) in source order; every
\* reordering of the source gives the same set of entries, and the same
\* sequence when all dates are distinct.
C12_SortedByDateStable ==
    result.done =>
        LET kept == SelectSeq(args.lis, LAMBDA li : li # LI_Empty)
            n == Len(kept)
            res == result.items
        IN  /\ Len(res) = n
            /\ \E p \in Perms(n) :
                  /\ \A i \in 1..n : res[i] = EntryOfLI(kept[p[i]])
                  /\ \A i, j \in 1..n : i < j =>
                        /\ DateWritten(kept[p[i]]) >= DateWritten(kept[p[j]])
                        /\ DateWritten(kept[p[i]]) = DateWritten(kept[p[j]]) => p[i] < p[j]
            /\ \A q \in Perms(Len(args.lis)) :
                  LET other == extract_collapsible_items(Permuted(args.lis, q), BaseUrl)
                  IN  /\ Range(other) = Range(res)
                      /\ DistinctDated(kept) => other = res

C12_Witness ==
    /\ result.done
    /\ args.lis = <<LI_Day32, LI_Nov2025Long, LI_Feb2026>>
    /\ result.items = <<EntryOfLI(LI_Feb2026), EntryOfLI(LI_Nov2025Long), EntryOfLI(LI_Day32)>>
    /\ EntryOfLI(LI_Feb2026).title = {<<"I", "c", "e", " ", "N", "e", "w", "s", " ", "2", "2", ".", "0", "2", ".", "2", "0", "2", "6">>}

-----------------------------------------------------------------------------
(* build_message as a function of the entry and of the backend's outcomes *)

\* entries whose fields hold the characters html.escape replaces
MarkupDicts == [title : Opt({<<>>, <<"a">>, <<"<", "a">>}),
                snippet : Opt({<<>>, <<"a">>, <<"&", ">">>}),
                link : Opt({<<>>, <<"u">>, <<"u", "&", "v">>, <<"\"", ">">>})]

InitBuild ==
    /\ RunIdle
    /\ args \in [fn : {"build_message"}, item : MarkupDicts, oracle : Oracles]
    /\ result = [done |-> FALSE]

BuildCall ==
    /\ args.fn = "build_message"
    /\ ~result.done
    /\ result' = [done |-> TRUE, message |-> build_message(args.item, args.oracle)]
    /\ UNCHANGED <<runVars, args>>

NextBuild == BuildCall

SpecBuild == InitBuild /\ [][NextBuild]_vars

-----------------------------------------------------------------------------
(* Claims about the formatter, checked under SpecBuild *)

Entities == {EscapeChar(c) : c \in {"&", "<", ">", "\"", "'"}}

\* text free of raw markup: no '<', '>' or quote, and every '&' opens one
\* of the five character references
RawFree(t) ==
    \A i \in 1..Len(t) :
        /\ t[i] \notin {"<", ">", "\"", "'"}
        /\ t[i] = "&" => \E e \in Entities :
                            /\ i + Len(e) - 1 <= Len(t)
                            /\ SubSeq(t, i, i + Len(e) - 1) = e

\* line is text free of raw markup between the two halves of a fixed tag pair
Wrapped(line, wrap(_)) ==
    LET prefix == CHOOSE k \in 0..Len(wrap(<<>>)) :
                     \A x \in {<<"u">>, <<"v">>} : SubSeq(wrap(x), k + 1, k + 1) = x
        suffix == Len(wrap(<<>>)) - prefix
    IN  /\ Len(line) >= prefix + suffix
        /\ line = wrap(SubSeq(line, prefix + 1, Len(line) - suffix))
        /\ RawFree(SubSeq(line, prefix + 1, Len(line) - suffix))

Plain(t) == t

\* C13: every line of the built message is the fixed header, or text free
\* of raw '&', '<', '>' and quotes, bare or inside one of the formatter's
\* fixed tag pairs <b>, <i>(Original: ) and <a href="">Read more</a>.
C13_AllEntryTextEscaped ==
    result.done =>
        \A line \in Range(Split(result.message, NL)) :
            \/ line = HeaderLine
            \/ Wrapped(line, Plain)
            \/ Wrapped(line, Bold)
            \/ Wrapped(line, OriginalLine)
            \/ Wrapped(line, ReadMore)

-----------------------------------------------------------------------------
(* Claim about the length of the chunks, checked under SpecSplit *)

\* C14: when no single line of the message is longer than the limit, every
\* returned chunk, its continuation header included, is at most the limit
\* long.
C14_ChunksWithinLimit ==
    (result.done /\ \A line \in Range(Split(args.msg, NL)) : Len(line) <= args.max_length)
        => \A i \in 1..Len(result.chunks) : Len(result.chunks[i]) <= args.max_length

-----------------------------------------------------------------------------
(* Runs that the operating system may end at any step *)

Running == {"fetched", "load", "detect", "build", "send", "save", "write"}

\* the process is killed; between open("w") of line 200 and the end of
\* json.dump the file holds what was written so far, a proper prefix of the
\* new record
Interrupt ==
    /\ pc \in Running
    /\ IF pc = "write"
       THEN \E k \in 0..(Len(json_dump(latest)) - 1) :
                /\ file' = TextFile(SubSeq(json_dump(latest), 1, k))
                /\ startFile' = TextFile(SubSeq(json_dump(latest), 1, k))
       ELSE file' = file /\ startFile' = file
    /\ pc' = "idle"
    /\ prev' = NoPrev
    /\ items' = <<>>
    /\ latest' = EmptyDict
    /\ last_seen' = PyDict(EmptyDict)
    /\ message' = <<>>
    /\ chunks' = <<>>
    /\ sendIdx' = 0
    /\ requests' = <<>>
    /\ writes' = 0
    /\ env' = [token |-> TRUE, chat_id |-> TRUE]
    /\ telegram' = TRUE
    /\ UNCHANGED <<args, result, persisted>>

NextInterrupted == Next \/ Interrupt

SpecInterrupted == Init /\ [][NextInterrupted]_vars

-----------------------------------------------------------------------------
(* Claim about the replacement of the state file, checked under SpecInterrupted *)

\* C15: within a run the state file is untouched until the detection has
\* read it, it is written at most once, and at every point of the run it
\* holds either the complete record the run started with or the complete
\* record of the run's top entry.
C15_FileReplacedAtomically ==
    /\ writes <= 1
    /\ pc \in {"idle", "fetched", "load"} => (file = startFile /\ writes = 0)
    /\ file = startFile \/ file = TextFile(json_dump(latest))

-----------------------------------------------------------------------------
(* Runs with the history of what was persisted *)

\* SaveWrite, recording in persisted the entry written; the first recorded
\* entry is kept, and any write may be the one recorded
SaveWriteTracked ==
    /\ pc = "write"
    /\ file' = TextFile(json_dump(latest))
    /\ writes' = writes + 1
    /\ pc' = "done_saved"
    /\ persisted' \in (IF persisted = None THEN {None, Some(latest)} ELSE {persisted})
    /\ UNCHANGED <<env, telegram, items, latest, last_seen, message, chunks, sendIdx,
                   requests, startFile, prev, args, result>>

NextTracked ==
    \/ Fetch \/ FetchFails \/ CheckItems \/ Load \/ Detect \/ Build
    \/ SendSkip \/ SendOk \/ SendFails \/ SaveOpen \/ SaveWriteTracked \/ EndRun

SpecTracked == Init /\ [][NextTracked]_vars

-----------------------------------------------------------------------------
(* Claims about repeated runs, checked under SpecTracked *)

\* the positions of a run once it has its top entry, the end of a
\* persisting run excepted
WithTopEntry == {"load", "detect", "build", "send", "save", "write",
                 "done_nochange", "failed_send", "crashed_load", "crashed_is_new"}

\* the run's top entry has the title and the snippet of the recorded entry
TopEntryIsPersisted ==
    /\ persisted # None
    /\ pc \in WithTopEntry
    /\ \A e \in persisted : latest.title = e.title /\ latest.snippet = e.snippet

QuietRun ==
    /\ pc \in {"load", "detect", "done_nochange"}
    /\ requests = <<>>
    /\ writes = 0
    /\ file = startFile

\* C16 as stated: once a run has persisted entry e, every later run whose
\* top entry has e's title and snippet sends nothing and writes nothing.
C16_QuietOncePersisted == TopEntryIsPersisted => QuietRun

\* C16: once a run has persisted entry e, every later run whose top entry
\* has e's title and snippet sends nothing and writes nothing, for as long
\* as the state file holds e's record, that is until a later run persists
\* another entry or the file is changed from outside.
C16_QuietWhileRecordHeld ==
    (TopEntryIsPersisted /\ \A e \in persisted : startFile = TextFile(json_dump(e)))
        => QuietRun

C16_Witness ==
    /\ persisted = Some(LongEntry)
    /\ startFile = TextFile(json_dump(LongEntry))
    /\ items = <<LongEntry, OlderEntry>>
    /\ latest = LongEntry
    /\ pc = "done_nochange"
    /\ QuietRun

====
